---- MODULE Spec2Model ----
(***************************************************************************)
(* BioSentience inference and explanation engine (src/app.py).             *)
(*                                                                         *)
(* Requests and files carry JSON numbers; the handlers compute on Python   *)
(* floats, which are modelled bit for bit as IEEE-754 doubles.  A Python   *)
(* dict is a sequence of [k, v] items in insertion order.  A DataFrame is  *)
(* [columns, rows]: the column names in order and one sequence of cells    *)
(* per row.  A Python call that can raise returns either Ok(value) or      *)
(* Raise(exception).                                                       *)
(***************************************************************************)
EXTENDS Integers, Sequences, FiniteSets, TLC

VARIABLES metadata, uploads, session, request, response

vars == <<metadata, uploads, session, request, response>>

(* ------------------------------ bounds -------------------------------- *)

\* cell values of the records fed to the engine are the integers -1..MaxValue
MaxValue == 1
\* requested step counts are -1..MaxSteps
MaxSteps == 3
\* variation ranges are k/2 for k in 0..MaxRangeHalves
MaxRangeHalves == 3
\* one larger cell value, the base value of the documented sweep 5, 10, 15
ExampleValue == 10

(* ------------------------------ numbers ------------------------------- *)
(* A JSON number, as written in a request or a file, is the fraction       *)
(* [n, d] with d > 0; JSON null (an empty CSV cell) is the record with     *)
(* d = 0.  A Python number is an IEEE-754 double [null, sign, mant, exp]   *)
(* of value sign * mant * 2^exp: mant is a natural number of MantBits      *)
(* bits (little-endian limbs of LimbBits bits), or <<>> for zero.  Small   *)
(* Python ints are the doubles of the same value.  Overflow, underflow and *)
(* subnormals are outside the numbers the requests reach.                  *)

RECURSIVE GCD(_, _)
GCD(a, b) == IF b = 0 THEN a ELSE GCD(b, a % b)

Abs(x) == IF x < 0 THEN -x ELSE x

Sign(x) == IF x < 0 THEN -1 ELSE IF x = 0 THEN 0 ELSE 1

\* the JSON number n/d
Rat(n, d) ==
    LET s == IF d < 0 THEN -1 ELSE 1
        g == GCD(Abs(n), Abs(d))
    IN  IF g = 0 THEN [n |-> 0, d |-> 1]
        ELSE [n |-> (s * n) \div g, d |-> (s * d) \div g]

\* the JSON integer k
Num(k) == [n |-> k, d |-> 1]

\* JSON null
NULL == [n |-> 0, d |-> 0]

LimbBits == 14

MantBits == 53

Base == 2^LimbBits

Limb(a, i) == IF i <= Len(a) THEN a[i] ELSE 0

RECURSIVE BTrim(_)
BTrim(a) == IF a # <<>> /\ a[Len(a)] = 0 THEN BTrim(SubSeq(a, 1, Len(a) - 1)) ELSE a

RECURSIVE BFromInt(_)
BFromInt(k) == IF k = 0 THEN <<>> ELSE <<k % Base>> \o BFromInt(k \div Base)

RECURSIVE BToInt(_)
BToInt(a) == IF a = <<>> THEN 0 ELSE a[1] + Base * BToInt(Tail(a))

RECURSIVE BCmpFrom(_, _, _)
BCmpFrom(a, b, i) ==
    IF i = 0 THEN 0
    ELSE IF a[i] # b[i] THEN (IF a[i] < b[i] THEN -1 ELSE 1)
    ELSE BCmpFrom(a, b, i - 1)

BCmp(a, b) ==
    IF Len(a) # Len(b) THEN (IF Len(a) < Len(b) THEN -1 ELSE 1)
    ELSE BCmpFrom(a, b, Len(a))

RECURSIVE BAddFrom(_, _, _, _)
BAddFrom(a, b, i, carry) ==
    IF i > Len(a) /\ i > Len(b) THEN (IF carry = 0 THEN <<>> ELSE <<carry>>)
    ELSE LET s == Limb(a, i) + Limb(b, i) + carry
         IN  <<s % Base>> \o BAddFrom(a, b, i + 1, s \div Base)

BAdd(a, b) == BAddFrom(a, b, 1, 0)

RECURSIVE BSubFrom(_, _, _, _)
BSubFrom(a, b, i, borrow) ==
    IF i > Len(a) THEN <<>>
    ELSE LET s == a[i] - Limb(b, i) - borrow
         IN  <<IF s < 0 THEN s + Base ELSE s>>
                 \o BSubFrom(a, b, i + 1, IF s < 0 THEN 1 ELSE 0)

\* a - b, for a >= b
BSub(a, b) == BTrim(BSubFrom(a, b, 1, 0))

RECURSIVE BMulSmallFrom(_, _, _, _)
BMulSmallFrom(a, k, i, carry) ==
    IF i > Len(a) THEN BFromInt(carry)
    ELSE LET s == a[i] * k + carry
         IN  <<s % Base>> \o BMulSmallFrom(a, k, i + 1, s \div Base)

\* a * k, for 0 <= k < 2^16
BMulSmall(a, k) == IF k = 0 THEN <<>> ELSE BMulSmallFrom(a, k, 1, 0)

BShiftLimbs(a, count) == IF a = <<>> THEN <<>> ELSE [i \in 1..count |-> 0] \o a

RECURSIVE BMulFrom(_, _, _)
BMulFrom(a, b, i) ==
    IF i > Len(b) THEN <<>>
    ELSE BAdd(BShiftLimbs(BMulSmall(a, b[i]), i - 1), BMulFrom(a, b, i + 1))

BMul(a, b) == BMulFrom(a, b, 1)

RECURSIVE BDivSmallFrom(_, _, _, _)
BDivSmallFrom(a, k, i, r) ==
    IF i = 0 THEN [q |-> <<>>, r |-> r]
    ELSE LET cur == r * Base + a[i]
             rest == BDivSmallFrom(a, k, i - 1, cur % k)
         IN  [q |-> rest.q \o <<cur \div k>>, r |-> rest.r]

\* quotient and remainder of a by k, for 0 < k < 2^16
BDivSmall(a, k) ==
    LET qr == BDivSmallFrom(a, k, Len(a), 0) IN [q |-> BTrim(qr.q), r |-> qr.r]

\* a * 2^bits
BShl(a, bits) ==
    BShiftLimbs(IF bits % LimbBits = 0 THEN a ELSE BMulSmall(a, 2^(bits % LimbBits)),
                bits \div LimbBits)

\* floor(a / 2^bits)
BShr(a, bits) ==
    LET drop == bits \div LimbBits
    IN  IF drop >= Len(a) THEN <<>>
        ELSE BDivSmall(SubSeq(a, drop + 1, Len(a)), 2^(bits % LimbBits)).q

RECURSIVE IntBitLen(_)
IntBitLen(k) == IF k = 0 THEN 0 ELSE 1 + IntBitLen(k \div 2)

BBitLen(a) == IF a = <<>> THEN 0 ELSE (Len(a) - 1) * LimbBits + IntBitLen(a[Len(a)])

BOdd(a) == a # <<>> /\ a[1] % 2 = 1

\* None in a record, NaN in a frame
NaN == [null |-> TRUE, sign |-> 0, mant |-> <<>>, exp |-> 0]

IsNull(v) == v.null

Zero == [null |-> FALSE, sign |-> 0, mant |-> <<>>, exp |-> 0]

Pack(sign, mant, exp) == [null |-> FALSE, sign |-> sign, mant |-> mant, exp |-> exp]

\* the part of M below 2^shift against one half of 2^shift, where q is M above it
HalfCmp(M, q, shift) == BCmp(BSub(M, BShl(q, shift)), BShl(<<1>>, shift - 1))

\* q rounded to nearest, ties to even
RoundUp(q, half, sticky) ==
    IF half > 0 \/ (half = 0 /\ (sticky \/ BOdd(q))) THEN BAdd(q, <<1>>) ELSE q

\* a mantissa that rounding carried to 2^MantBits takes the next exponent
Carry(sign, rounded, E) ==
    IF BBitLen(rounded) > MantBits THEN Pack(sign, BShr(rounded, 1), E + 1)
    ELSE Pack(sign, rounded, E)

RoundTo(sign, M, E, sticky, len) ==
    IF len <= MantBits THEN Pack(sign, BShl(M, MantBits - len), E - (MantBits - len))
    ELSE Carry(sign,
               RoundUp(BShr(M, len - MantBits),
                       HalfCmp(M, BShr(M, len - MantBits), len - MantBits), sticky),
               E + (len - MantBits))

\* the double nearest sign * (M + delta) * 2^E, ties to even, where
\* 0 <= delta < 1 and delta > 0 exactly when sticky
Round(sign, M, E, sticky) ==
    IF M = <<>> \/ sign = 0 THEN Zero ELSE RoundTo(sign, M, E, sticky, BBitLen(M))

\* float(k) of a Python int
FNum(k) == Round(Sign(k), BFromInt(Abs(k)), 0, FALSE)

RoundQuotient(sign, qr, E) == Round(sign, qr.q, E, qr.r # 0)

\* a / k for a Python int k # 0 (the int is converted exactly), |k| < 2^16
FDivInt(a, k) ==
    RoundQuotient(a.sign * Sign(k),
                  BDivSmall(BShl(a.mant, MantBits + LimbBits), Abs(k)),
                  a.exp - (MantBits + LimbBits))

\* the double a decimal literal of value n/d parses to
Float(n, d) == FDivInt(FNum(n), d)

\* a JSON value as Python reads it
Parse(json) ==
    IF json.d = 0 THEN NaN
    ELSE IF json.d = 1 THEN FNum(json.n)
    ELSE Float(json.n, json.d)

FNeg(a) == [a EXCEPT !.sign = -a.sign]

FMul(a, b) == Round(a.sign * b.sign, BMul(a.mant, b.mant), a.exp + b.exp, FALSE)

\* sa * A + sb * B as sign and magnitude, for signs sa, sb # 0
SignedSum(sa, A, sb, B) ==
    IF sa = sb THEN [sign |-> sa, mag |-> BAdd(A, B)]
    ELSE IF BCmp(A, B) >= 0 THEN [sign |-> sa, mag |-> BSub(A, B)]
    ELSE [sign |-> sb, mag |-> BSub(B, A)]

RoundSum(sum, e) == Round(sum.sign, sum.mag, e, FALSE)

\* a + b with both mantissas brought to the exponent e
FAddAt(a, b, e) ==
    RoundSum(SignedSum(a.sign, BShl(a.mant, a.exp - e),
                       b.sign, BShl(b.mant, b.exp - e)), e)

\* a + b; an operand more than 2 * MantBits binary places below the other
\* cannot change the rounded sum
FAdd(a, b) ==
    IF a.sign = 0 THEN b
    ELSE IF b.sign = 0 THEN a
    ELSE IF a.exp - b.exp > 2 * MantBits THEN a
    ELSE IF b.exp - a.exp > 2 * MantBits THEN b
    ELSE FAddAt(a, b, IF a.exp < b.exp THEN a.exp ELSE b.exp)

FSub(a, b) == FAdd(a, FNeg(b))

\* the order of two floats of one sign by magnitude: mantissas are normalised
MagCmp(a, b) ==
    IF a.exp # b.exp THEN (IF a.exp < b.exp THEN -1 ELSE 1) ELSE BCmp(a.mant, b.mant)

\* a < b; no comparison with NaN holds
FLess(a, b) ==
    /\ ~IsNull(a) /\ ~IsNull(b)
    /\ IF a.sign # b.sign THEN a.sign < b.sign ELSE a.sign * MagCmp(a, b) < 0

(* ----------------------- Python values and calls ---------------------- *)

Ok(v) == [kind |-> "ok", val |-> v]
Raise(e) == [kind |-> "raise", exc |-> e]

Range(s) == {s[i] : i \in DOMAIN s}

Keys(dict) == {dict[i].k : i \in DOMAIN dict}

\* dict[key], for a key the dict holds
Lookup(dict, key) == dict[CHOOSE i \in DOMAIN dict : dict[i].k = key].v

\* dict.copy() followed by copy[key] = value, for a key the dict holds
SetItem(dict, key, value) ==
    [i \in DOMAIN dict |-> IF dict[i].k = key THEN [k |-> key, v |-> value] ELSE dict[i]]

\* pd.DataFrame([record]): one row, the record's keys as columns in order
DataFrame(record) ==
    [columns |-> [i \in DOMAIN record |-> record[i].k],
     rows |-> << [i \in DOMAIN record |-> record[i].v] >>]

\* request.json / json.load on a dict of numbers
ParseDict(dict) == [i \in DOMAIN dict |-> [k |-> dict[i].k, v |-> Parse(dict[i].v)]]

ColumnIndex(df, name) == CHOOSE i \in DOMAIN df.columns : df.columns[i] = name

\* df[names]: the named columns, in the order asked for
Select(df, names) ==
    [columns |-> names,
     rows |-> [r \in DOMAIN df.rows |->
                 [j \in DOMAIN names |-> df.rows[r][ColumnIndex(df, names[j])]]]]

(* ------------------------------ registry ------------------------------ *)

EXPECTED_FEATURES == <<"gene_expr_level", "cell_density", "ph_level">>

ExtraColumn == "sample_id"

TARGETS == <<"health_index", "mutation_risk", "adaptation_score">>

(* ------------------------------ validator ----------------------------- *)

NoneValue == [none |-> TRUE]

NoError == [kind |-> "None"]

MissingFeaturesError(names) ==
    [kind |-> "MissingFeatures", msg |-> "Missing required features: ", names |-> names]

NullValuesError ==
    [kind |-> "NullValues",
     msg |-> "Data contains missing values. Please ensure all fields are filled."]

NegativeValuesError ==
    [kind |-> "NegativeValues",
     msg |-> "Data contains negative values. Biological metrics must be non-negative."]

\* X.isnull().any().any()
AnyNull(X) == \E r \in DOMAIN X.rows : \E j \in DOMAIN X.rows[r] : IsNull(X.rows[r][j])

\* (X < 0).any().any(); a comparison with NaN is False
AnyNegative(X) ==
    \E r \in DOMAIN X.rows : \E j \in DOMAIN X.rows[r] :
        ~IsNull(X.rows[r][j]) /\ X.rows[r][j].sign < 0

\* the mutant: the sign check runs before the completeness checks
validate_sign_first(df) ==
    LET missing_features == Range(EXPECTED_FEATURES) \ Range(df.columns)
    IN  IF \E r \in DOMAIN df.rows : \E j \in DOMAIN df.rows[r] :
              /\ df.columns[j] \in Range(EXPECTED_FEATURES)
              /\ ~IsNull(df.rows[r][j]) /\ df.rows[r][j].sign < 0
        THEN [X |-> NoneValue, error |-> NegativeValuesError]
        ELSE IF missing_features # {}
        THEN [X |-> NoneValue, error |-> MissingFeaturesError(missing_features)]
        ELSE IF AnyNull(Select(df, EXPECTED_FEATURES))
        THEN [X |-> NoneValue, error |-> NullValuesError]
        ELSE [X |-> Select(df, EXPECTED_FEATURES), error |-> NoError]

\* the mutant: the sign check is missing
validate_no_sign_check(df) ==
    LET missing_features == Range(EXPECTED_FEATURES) \ Range(df.columns)
    IN  IF missing_features # {}
        THEN [X |-> NoneValue, error |-> MissingFeaturesError(missing_features)]
        ELSE IF AnyNull(Select(df, EXPECTED_FEATURES))
        THEN [X |-> NoneValue, error |-> NullValuesError]
        ELSE [X |-> Select(df, EXPECTED_FEATURES), error |-> NoError]

\* the mutant: the frame is returned as uploaded, not projected on the schema
validate_no_projection(df) ==
    LET missing_features == Range(EXPECTED_FEATURES) \ Range(df.columns)
    IN  IF missing_features # {}
        THEN [X |-> NoneValue, error |-> MissingFeaturesError(missing_features)]
        ELSE IF AnyNull(Select(df, EXPECTED_FEATURES))
        THEN [X |-> NoneValue, error |-> NullValuesError]
        ELSE IF AnyNegative(Select(df, EXPECTED_FEATURES))
        THEN [X |-> NoneValue, error |-> NegativeValuesError]
        ELSE [X |-> df, error |-> NoError]

\* validate_and_prepare_data(df): the pair (X, error).  The names of a
\* MissingFeatures message are joined from a Python set, whose order is not
\* fixed: the message carries them as a set.
validate_and_prepare_data(df) ==
    LET missing_features == Range(EXPECTED_FEATURES) \ Range(df.columns)
    IN  IF missing_features # {}
        THEN [X |-> NoneValue, error |-> MissingFeaturesError(missing_features)]
        ELSE LET X == Select(df, EXPECTED_FEATURES)
             IN  IF AnyNull(X)
                 THEN [X |-> NoneValue, error |-> NullValuesError]
                 ELSE IF AnyNegative(X)
                 THEN [X |-> NoneValue, error |-> NegativeValuesError]
                 ELSE [X |-> X, error |-> NoError]

(* --------------------------- model registry --------------------------- *)

\* feature_names / EXPECTED_FEATURES are metadata['features'], written by the
\* training script from the data set's columns

\* sorted(..., key=importance, reverse=True), which is stable: the pairs in
\* descending importance, equal importances in their given order
RECURSIVE SortedDescending(_)
SortedDescending(pairs) ==
    IF pairs = <<>> THEN <<>>
    ELSE LET top == CHOOSE i \in DOMAIN pairs :
                        /\ \A j \in DOMAIN pairs : pairs[j].importance <= pairs[i].importance
                        /\ \A j \in 1..(i - 1) : pairs[j].importance < pairs[i].importance
         IN  <<pairs[top]>>
                 \o SortedDescending(SubSeq(pairs, 1, top - 1)
                                       \o SubSeq(pairs, top + 1, Len(pairs)))

\* train.py: the five most important features of a fitted forest, descending,
\* from the feature columns and their importances (here in thousandths)
TopFeatures(names, thousandths) ==
    LET ranked == SortedDescending([i \in DOMAIN names |->
                                       [name |-> names[i], importance |-> thousandths[i]]])
        top == SubSeq(ranked, 1, IF Len(ranked) < 5 THEN Len(ranked) ELSE 5)
    IN  [i \in DOMAIN top |->
            [name |-> top[i].name, importance |-> Float(top[i].importance, 1000)]]

ModelInfo(description, r2, mse, top_features) ==
    [description |-> description, r2_score |-> r2, mse |-> mse,
     top_features |-> top_features]

\* the metadata.json files of two training runs; a forest's importances are
\* given per feature column and sum to one
Registries ==
    { [features |-> EXPECTED_FEATURES,
       models |->
         [health_index |->
            ModelInfo("Health Index (overall biological wellness)",
                      Float(92, 100), Float(1, 1000),
                      TopFeatures(EXPECTED_FEATURES, <<770, 150, 80>>)),
          mutation_risk |->
            ModelInfo("Mutation Risk (genetic instability probability)",
                      Float(85, 100), Float(2, 1000),
                      TopFeatures(EXPECTED_FEATURES, <<81, 768, 151>>)),
          adaptation_score |->
            ModelInfo("Adaptation Score (environmental resilience)",
                      Float(78, 100), Float(3, 1000),
                      TopFeatures(EXPECTED_FEATURES, <<149, 9, 842>>))]],
      [features |-> EXPECTED_FEATURES,
       models |->
         [health_index |->
            ModelInfo("Health Index (overall biological wellness)",
                      Float(-1, 10), Float(9, 100),
                      TopFeatures(EXPECTED_FEATURES, <<79, 150, 771>>)),
          mutation_risk |->
            ModelInfo("Mutation Risk (genetic instability probability)",
                      FNum(1), Zero,
                      TopFeatures(EXPECTED_FEATURES, <<1000, 0, 0>>)),
          adaptation_score |->
            ModelInfo("Adaptation Score (environmental resilience)",
                      Float(1, 2), Float(4, 100),
                      TopFeatures(EXPECTED_FEATURES, <<333, 334, 333>>))]] }

\* the values the forests below return
Leaves ==
    [health_index |-> <<Float(9, 10), Float(6, 10)>>,
     mutation_risk |-> <<Float(4, 10), Float(1, 10)>>,
     adaptation_score |-> <<Float(7, 10), Float(5, 10)>>]

\* A fitted forest is a piecewise-constant function of the feature row; each
\* target's forest is represented by one split on one feature.
Forest(target, row) ==
    CASE target = "health_index" -> Leaves[target][IF row[1].sign > 0 THEN 1 ELSE 2]
      [] target = "mutation_risk" -> Leaves[target][IF row[2].sign > 0 THEN 1 ELSE 2]
      [] OTHER -> Leaves[target][IF row[3].sign > 0 THEN 1 ELSE 2]

\* models[target].predict(X)[0]: the library rejects None and an empty frame
predict(target, X) ==
    IF X = NoneValue THEN Raise("ValueError")
    ELSE IF Len(X.rows) = 0 THEN Raise("ValueError")
    ELSE Ok(Forest(target, X.rows[1]))

(* ------------------------------ responses ----------------------------- *)

NoResponse == [pending |-> TRUE]

Response(status, body) == [status |-> status, body |-> body]

ErrorBody(kind, msg) == [error |-> [kind |-> kind, msg |-> msg]]

\* a handler without an except clause: an exception raised in it leaves the
\* handler as a fault, which Flask answers or re-raises as it is configured
uncaught(result) ==
    IF result.kind = "raise" THEN [fault |-> result.exc] ELSE result.val

\* the mutant: the handler has no except clause
propagate(result, prefix) == uncaught(result)

\* try: ... except Exception as e: return jsonify({'error': prefix + str(e)}), 500
try_except(result, prefix) ==
    IF result.kind = "raise"
    THEN Response(500, [error |-> [kind |-> "Exception", msg |-> prefix,
                                    cause |-> result.exc]])
    ELSE result.val

\* data.get(key, default): the field is <<>> when the request lacks the key
Get(field, default) == IF field = <<>> THEN default ELSE field[1]

(* ------------------------------ simulate ------------------------------ *)

DefaultSteps == 10

DefaultVariationRange == Float(3, 10)

\* 1 - variation_range + (2 * variation_range * i / (steps - 1))
Factor(variation_range, i, steps) ==
    IF steps - 1 = 0 THEN Raise("ZeroDivisionError")
    ELSE Ok(FAdd(FSub(FNum(1), variation_range),
                 FDivInt(FMul(FMul(FNum(2), variation_range), FNum(i)), steps - 1)))

\* float(x)
PyFloat(x) == IF IsNull(x) THEN Raise("TypeError") ELSE Ok(x)

\* the mutant: a step whose record fails validation is left out of the trajectory
simulate_step_skips_invalid(base_features, vary_feature, base_value, variation_range, steps, i) ==
    LET factor == Factor(variation_range, i, steps)
    IN  IF factor.kind = "raise" THEN factor
        ELSE IF IsNull(base_value) THEN Raise("TypeError")
        ELSE
          LET new_value == FMul(base_value, factor.val)
              modified_features == SetItem(base_features, vary_feature, new_value)
              X_sim == validate_and_prepare_data(DataFrame(modified_features)).X
          IN  IF X_sim = NoneValue THEN Ok(<<>>)
              ELSE Ok(<< [step |-> i, value |-> new_value,
                           health_index |-> predict("health_index", X_sim).val,
                           mutation_risk |-> predict("mutation_risk", X_sim).val,
                           adaptation_score |-> predict("adaptation_score", X_sim).val] >>)

\* the mutant: the sweep starts at the unchanged value instead of 1 - range
simulate_step_from_base(base_features, vary_feature, base_value, variation_range, steps, i) ==
    LET factor == Factor(variation_range, i, steps)
    IN  IF factor.kind = "raise" THEN factor
        ELSE IF IsNull(base_value) THEN Raise("TypeError")
        ELSE
          LET new_value == FMul(base_value, FAdd(factor.val, variation_range))
              modified_features == SetItem(base_features, vary_feature, new_value)
              X_sim == validate_and_prepare_data(DataFrame(modified_features)).X
              h == predict("health_index", X_sim)
              m == predict("mutation_risk", X_sim)
              a == predict("adaptation_score", X_sim)
          IN  IF h.kind = "raise" THEN h
              ELSE Ok(<< [step |-> i, value |-> new_value, health_index |-> h.val,
                           mutation_risk |-> m.val, adaptation_score |-> a.val] >>)

\* step_predictions of one pass, or the exception a model raised
step_predictions(i, new_value, h, m, a) ==
    IF h.kind = "raise" THEN h
    ELSE IF m.kind = "raise" THEN m
    ELSE IF a.kind = "raise" THEN a
    ELSE Ok(<< [step |-> i, value |-> new_value, health_index |-> h.val,
                 mutation_risk |-> m.val, adaptation_score |-> a.val] >>)

\* for target_name, model in models.items(): pred = model.predict(X_sim)[0]
predict_step(i, new_value, X_sim) ==
    step_predictions(i, new_value, predict("health_index", X_sim),
                     predict("mutation_risk", X_sim), predict("adaptation_score", X_sim))

\* df_sim with the varied value; X_sim, _ = validate_and_prepare_data(df_sim)
modify_step(base_features, vary_feature, i, new_value) ==
    predict_step(i, new_value,
                 validate_and_prepare_data(
                     DataFrame(SetItem(base_features, vary_feature, new_value))).X)

\* new_value = base_value * factor
perturb_step(base_features, vary_feature, base_value, i, factor) ==
    IF factor.kind = "raise" THEN factor
    ELSE IF IsNull(base_value) THEN Raise("TypeError")
    ELSE modify_step(base_features, vary_feature, i, FMul(base_value, factor.val))

\* one pass of the loop body: the steps it appends to the trajectory
simulate_step(base_features, vary_feature, base_value, variation_range, steps, i) ==
    perturb_step(base_features, vary_feature, base_value, i,
                 Factor(variation_range, i, steps))

RECURSIVE simulate_loop(_, _, _, _, _, _, _)

\* trajectory.append(step_predictions) and the next pass, or the exception
append_step(base_features, vary_feature, base_value, variation_range, steps, i, trajectory, appended) ==
    IF appended.kind = "raise" THEN appended
    ELSE simulate_loop(base_features, vary_feature, base_value, variation_range,
                       steps, i + 1, trajectory \o appended.val)

\* for i in range(steps): ... trajectory.append(step_predictions)
simulate_loop(base_features, vary_feature, base_value, variation_range, steps, i, trajectory) ==
    IF i >= steps THEN Ok(trajectory)
    ELSE append_step(base_features, vary_feature, base_value, variation_range, steps, i,
                     trajectory,
                     simulate_step(base_features, vary_feature, base_value,
                                   variation_range, steps, i))

\* return jsonify({'trajectory': ..., 'base_value': float(base_value), ...})
simulate_result(vary_feature, base_value, variation_range, steps, trajectory) ==
    IF trajectory.kind = "raise" THEN trajectory
    ELSE IF PyFloat(base_value).kind = "raise" THEN PyFloat(base_value)
    ELSE Ok(Response(200,
              [trajectory |-> trajectory.val,
               varied_feature |-> vary_feature,
               base_value |-> PyFloat(base_value).val,
               variation_range |-> variation_range,
               steps |-> steps]))

\* base_value = base_features[vary_feature] and the loop
simulate_sweep(base_features, vary_feature, base_value, variation_range, steps) ==
    simulate_result(vary_feature, base_value, variation_range, steps,
                    simulate_loop(base_features, vary_feature, base_value,
                                  variation_range, steps, 0, <<>>))

\* X_base, error = validate_and_prepare_data(df_base), then the sweep
simulate_checked(base_features, vary_feature, variation_range, steps, checked) ==
    IF checked.error # NoError
    THEN Ok(Response(400, [error |-> checked.error]))
    ELSE IF vary_feature \notin Keys(base_features) THEN Raise("KeyError")
    ELSE simulate_sweep(base_features, vary_feature,
                        Lookup(base_features, vary_feature), variation_range, steps)

simulate_parsed(base_features, vary_feature, variation_range, steps) ==
    IF base_features = <<>> \/ vary_feature = ""
    THEN Ok(Response(400, ErrorBody("MissingParameters", "Missing required parameters")))
    ELSE simulate_checked(base_features, vary_feature, variation_range, steps,
                          validate_and_prepare_data(DataFrame(base_features)))

\* the body of simulate(), inside its try; data is the request's JSON
simulate_body(data) ==
    simulate_parsed(ParseDict(data.base_features), data.vary_feature,
                    IF data.variation_range = <<>> THEN DefaultVariationRange
                    ELSE Parse(data.variation_range[1]),
                    Get(data.steps, DefaultSteps))

\* POST /api/simulate
simulate(data) == try_except(simulate_body(data), "Simulation error: ")

(* ------------------------------ explain ------------------------------- *)

\* feat_name.replace('_', ' ').title(), on the names of the schema
ReadableName(feat_name) ==
    CASE feat_name = "gene_expr_level" -> "Gene Expr Level"
      [] feat_name = "cell_density" -> "Cell Density"
      [] feat_name = "ph_level" -> "Ph Level"
      [] OTHER -> "Sample Id"

\* the numbers written in generate_explanation
Thresholds ==
    [impact |-> [high |-> Float(15, 100), moderate |-> Float(8, 100)],
     health |-> [excellent |-> Float(85, 100), good |-> Float(70, 100),
                 moderate |-> Float(55, 100)],
     risk |-> [low |-> Float(15, 100), moderate |-> Float(30, 100),
               elevated |-> Float(45, 100)],
     adaptation |-> [high |-> Float(80, 100), moderate |-> Float(60, 100)]]

\* the mutant: the thresholds are inclusive
impact_inclusive(importance) ==
    IF ~FLess(importance, Thresholds.impact.high) THEN "high"
    ELSE IF ~FLess(importance, Thresholds.impact.moderate) THEN "moderate"
    ELSE "low"

\* 'high' if importance > 0.15 else 'moderate' if importance > 0.08 else 'low'
impact(importance) ==
    IF FLess(Thresholds.impact.high, importance) THEN "high"
    ELSE IF FLess(Thresholds.impact.moderate, importance) THEN "moderate"
    ELSE "low"

health_status(health) ==
    IF FLess(Thresholds.health.excellent, health) THEN "excellent"
    ELSE IF FLess(Thresholds.health.good, health) THEN "good"
    ELSE IF FLess(Thresholds.health.moderate, health) THEN "moderate"
    ELSE "concerning"

risk_status(risk) ==
    IF FLess(risk, Thresholds.risk.low) THEN "low"
    ELSE IF FLess(risk, Thresholds.risk.moderate) THEN "moderate"
    ELSE IF FLess(risk, Thresholds.risk.elevated) THEN "elevated"
    ELSE "high"

adaptation_status(adaptation) ==
    IF FLess(Thresholds.adaptation.high, adaptation) THEN "high"
    ELSE IF FLess(Thresholds.adaptation.moderate, adaptation) THEN "moderate"
    ELSE "low"

\* M * 2^exp rounded to an integer, ties to even
NearestInt(M, exp) ==
    IF exp >= 0 THEN BShl(M, exp)
    ELSE RoundUp(BShr(M, -exp), HalfCmp(M, BShr(M, -exp), -exp), FALSE)

\* f"{x:.2f}": the sign and the hundredths of the decimal nearest the double's
\* exact value, ties to even
Format2(x) ==
    [negative |-> x.sign < 0,
     hundredths |-> BToInt(NearestInt(BMulSmall(x.mant, 100), x.exp))]

\* importances[:3]
Top3(top_features) == SubSeq(top_features, 1, IF Len(top_features) < 3 THEN Len(top_features) ELSE 3)

\* the entries generate_explanation appends for one target
explanation_entries(feature_values, top_features) ==
    [i \in DOMAIN Top3(top_features) |->
        [feature |-> ReadableName(top_features[i].name),
         value |-> feature_values.rows[1][ColumnIndex(feature_values, top_features[i].name)],
         importance |-> top_features[i].importance,
         impact |-> impact(top_features[i].importance)]]

\* the explanations dict with its summary; the summary is kept as the parts
\* its two sentences are formatted from
explanations(health, risk, adaptation, predictions) ==
    [health_index |-> health,
     mutation_risk |-> risk,
     adaptation_score |-> adaptation,
     summary |->
       [health_status |-> health_status(predictions.health_index),
        health |-> Format2(predictions.health_index),
        risk_status |-> risk_status(predictions.mutation_risk),
        risk |-> Format2(predictions.mutation_risk),
        adaptation_status |-> adaptation_status(predictions.adaptation_score),
        adaptation |-> Format2(predictions.adaptation_score),
        top_health_feature |-> health[1].feature,
        top_risk_feature |-> risk[1].feature]]

\* generate_explanation(feature_values, predictions, feature_importances)
generate_explanation(feature_values, predictions, md) ==
    IF \E t \in Range(TARGETS) : \E i \in DOMAIN Top3(md.models[t].top_features) :
          md.models[t].top_features[i].name \notin Range(feature_values.columns)
    THEN Raise("KeyError")
    ELSE IF md.models.health_index.top_features = <<>>
            \/ md.models.mutation_risk.top_features = <<>>
    THEN Raise("IndexError")
    ELSE Ok(explanations(
              explanation_entries(feature_values, md.models.health_index.top_features),
              explanation_entries(feature_values, md.models.mutation_risk.top_features),
              explanation_entries(feature_values, md.models.adaptation_score.top_features),
              predictions))

(* ------------------------------- files -------------------------------- *)

\* werkzeug's secure_filename, on the file names of the requests
secure_filename(filename) == IF filename = "../data.csv" THEN "data.csv" ELSE filename

\* filename.endswith('.csv'), on the file names of the requests
EndsWithCsv(filename) == filename \in {"data.csv", "../data.csv"}

UploadPath(filename) == "uploads/" \o filename

\* pd.read_csv(filepath): a file is a table of JSON numbers (an empty cell is
\* null), or text the parser rejects
read_csv(disk, filepath) ==
    IF filepath \notin DOMAIN disk THEN Raise("FileNotFoundError")
    ELSE IF ~disk[filepath].parses THEN Raise("EmptyDataError")
    ELSE Ok([columns |-> disk[filepath].columns,
             rows |-> [r \in DOMAIN disk[filepath].rows |->
                         [j \in DOMAIN disk[filepath].rows[r] |->
                             Parse(disk[filepath].rows[r][j])]]])

\* df.iloc[[row_idx]]: negative positions count from the end
iloc(df, row_idx) ==
    LET len == Len(df.rows)
    IN  IF row_idx >= len \/ row_idx < -len THEN Raise("IndexError")
        ELSE Ok([columns |-> df.columns,
                 rows |-> << df.rows[IF row_idx < 0 THEN len + row_idx + 1 ELSE row_idx + 1] >>])

\* row.to_dict()
RowDict(df, r) == [j \in DOMAIN df.columns |-> [k |-> df.columns[j], v |-> df.rows[r][j]]]

(* ------------------------------ analyze ------------------------------- *)

\* the mutant: confidence is derived from the prediction of the vector at hand
confidence_from_prediction(md, target_name, pred) ==
    FSub(FNum(1), FMul(pred, FSub(FNum(1), md.models[target_name].r2_score)))

\* r2 = metadata['models'][target_name]['r2_score']; float(r2)
confidence_score(md, target_name, pred) == md.models[target_name].r2_score

\* return jsonify({'predictions': ..., 'confidence': ..., 'explanation': ...})
analyze_result(predictions, confidence_scores, explanation, input_features) ==
    IF explanation.kind = "raise" THEN explanation
    ELSE Ok(Response(200,
              [predictions |-> predictions,
               confidence |-> confidence_scores,
               explanation |-> explanation.val,
               input_features |-> input_features,
               disclaimer |-> "These are model predictions for research purposes only. Not medical advice."]))

\* explanation = generate_explanation(X, predictions, feature_importances)
analyze_explained(md, X, predictions, confidence_scores) ==
    analyze_result(predictions, confidence_scores,
                   generate_explanation(X, predictions, md), RowDict(X, 1))

\* predictions[target_name] = float(pred); confidence_scores[target_name] = float(r2)
analyze_scored(md, X, h, m, a) ==
    IF h.kind = "raise" THEN h
    ELSE IF m.kind = "raise" THEN m
    ELSE IF a.kind = "raise" THEN a
    ELSE analyze_explained(md, X,
            [health_index |-> h.val, mutation_risk |-> m.val, adaptation_score |-> a.val],
            [health_index |-> confidence_score(md, "health_index", h.val),
             mutation_risk |-> confidence_score(md, "mutation_risk", m.val),
             adaptation_score |-> confidence_score(md, "adaptation_score", a.val)])

\* for target_name, model in models.items(): pred = model.predict(X)[0]
analyze_checked(md, checked) ==
    IF checked.error # NoError THEN Ok(Response(400, [error |-> checked.error]))
    ELSE analyze_scored(md, checked.X, predict("health_index", checked.X),
                        predict("mutation_risk", checked.X),
                        predict("adaptation_score", checked.X))

\* the part of analyze() after the frame is chosen
analyze_frame(md, df) == analyze_checked(md, validate_and_prepare_data(df))

\* the frame of the session's file, or its row row_index, or the exception
session_frame(data, df) ==
    IF df.kind = "raise" THEN df
    ELSE IF data.row_index # <<>> THEN iloc(df.val, data.row_index[1])
    ELSE df

\* the frame of the request's record or of the session's file
selected_frame(disk, sess, data) ==
    IF data.data # <<>> THEN Ok(DataFrame(ParseDict(data.data[1])))
    ELSE session_frame(data, read_csv(disk, sess))

analyze_selected(md, frame) ==
    IF frame.kind = "raise" THEN frame ELSE analyze_frame(md, frame.val)

\* the body of analyze(), inside its try
analyze_body(md, disk, sess, data) ==
    IF data.data = <<>> /\ sess = ""
    THEN Ok(Response(400, ErrorBody("NoData", "No data provided")))
    ELSE analyze_selected(md, selected_frame(disk, sess, data))

\* POST /api/analyze
analyze(md, disk, sess, data) ==
    try_except(analyze_body(md, disk, sess, data), "Analysis error: ")

(* ------------------------------- upload ------------------------------- *)

\* the disk after upload_file(): file.save(filepath) comes before the parse
upload_disk(disk, files) ==
    IF files = <<>> \/ files[1].filename = "" \/ ~EndsWithCsv(files[1].filename) THEN disk
    ELSE (UploadPath(secure_filename(files[1].filename)) :> files[1].content) @@ disk

\* the session after upload_file(): set once the parse has succeeded
upload_session(disk, sess, files) ==
    IF files = <<>> \/ files[1].filename = "" \/ ~EndsWithCsv(files[1].filename) THEN sess
    ELSE IF ~files[1].content.parses THEN sess
    ELSE UploadPath(secure_filename(files[1].filename))

\* df.head(10)
PreviewRows == 10

\* the body of upload_file(), inside its try
upload_body(files) ==
    IF files = <<>> THEN Ok(Response(400, ErrorBody("NoFile", "No file uploaded")))
    ELSE IF files[1].filename = ""
    THEN Ok(Response(400, ErrorBody("NoFile", "No file selected")))
    ELSE IF ~EndsWithCsv(files[1].filename)
    THEN Ok(Response(400, ErrorBody("NotCsv", "Only CSV files are supported")))
    ELSE
      LET filename == secure_filename(files[1].filename)
          filepath == UploadPath(filename)
          df == read_csv(filepath :> files[1].content, filepath)
      IN  IF df.kind = "raise" THEN df
          ELSE Ok(Response(200,
                    [filename |-> filename,
                     rows |-> Len(df.val.rows),
                     columns |-> df.val.columns,
                     preview_data |->
                         [r \in 1..(IF Len(df.val.rows) < PreviewRows
                                    THEN Len(df.val.rows) ELSE PreviewRows)
                             |-> RowDict(df.val, r)],
                     has_required_features |->
                         \A j \in DOMAIN EXPECTED_FEATURES :
                             EXPECTED_FEATURES[j] \in Range(df.val.columns)]))

\* POST /api/upload
upload_file(files) == try_except(upload_body(files), "Error processing file: ")

(* ------------------------------ describe ------------------------------ *)

\* the body of explain(), inside its try
explain_body(md, data) ==
    LET target == Get(data.target, "health_index")
    IN  IF target \notin Range(TARGETS)
        THEN Ok(Response(400, [error |-> [kind |-> "InvalidTarget",
                                           msg |-> "Invalid target: ", target |-> target]]))
        ELSE
          LET model_info == md.models[target]
          IN  Ok(Response(200,
                    [target |-> target,
                     description |-> model_info.description,
                     performance |-> [r2_score |-> model_info.r2_score,
                                      mse |-> model_info.mse],
                     feature_importances |-> model_info.top_features,
                     interpretation |-> [description |-> model_info.description,
                                         r2_score |-> model_info.r2_score]]))

\* POST /api/explain
explain(md, data) == try_except(explain_body(md, data), "Explanation error: ")

(* ----------------------------- sample data ---------------------------- *)

SampleDataPath == "data/sample_biological_data.csv"

\* df[EXPECTED_FEATURES].iloc[0].to_dict() and the response
sample_of(df) ==
    IF df.kind = "raise" THEN df
    ELSE IF \E j \in DOMAIN EXPECTED_FEATURES :
               EXPECTED_FEATURES[j] \notin Range(df.val.columns)
    THEN Raise("KeyError")
    ELSE IF df.val.rows = <<>> THEN Raise("IndexError")
    ELSE Ok(Response(200,
              [data |-> RowDict(Select(df.val, EXPECTED_FEATURES), 1),
               note |-> "This is demo data from the training dataset"]))

\* GET /api/sample-data, with the files of data/; the handler has no try
get_sample_data(data_dir) == uncaught(sample_of(read_csv(data_dir, SampleDataPath)))

\* GET /, with the names of the files of templates/; the handler has no try
index(templates) ==
    uncaught(IF "index.html" \in templates
             THEN Ok(Response(200, [page |-> "index.html"]))
             ELSE Raise("TemplateNotFound"))

(* ------------------------------- inputs ------------------------------- *)

Columns == EXPECTED_FEATURES \o <<ExtraColumn>>

\* a schema cell of a request: null or an integer
Cells == {NULL} \cup {Num(k) : k \in -1..MaxValue} \cup {Num(ExampleValue)}

\* a cell of the column the schema does not name
ExtraCells == {NULL, Num(1)}

CellsOf(column) == IF column = ExtraColumn THEN ExtraCells ELSE Cells

Items == UNION {{[k |-> c, v |-> x] : x \in CellsOf(c)} : c \in Range(Columns)}

\* every dict over the columns, in every key order
Dicts ==
    UNION {{d \in [1..len -> Items] :
               \A i, j \in 1..len : i # j => d[i].k # d[j].k} : len \in 0..Len(Columns)}

\* the dicts whose keys come in the order of Columns
OrderedDicts ==
    {d \in Dicts : \A i, j \in DOMAIN d :
        i < j => ColumnIndex([columns |-> Columns], d[i].k)
                   < ColumnIndex([columns |-> Columns], d[j].k)}

StepCounts == {<<>>} \cup {<<k>> : k \in -1..MaxSteps}

VariationRanges == {<<>>} \cup {<<Rat(k, 2)>> : k \in 0..MaxRangeHalves}

\* the records with at most one defect: a schema field absent, null or negative
SimulateBases ==
    {d \in OrderedDicts :
        Cardinality({i \in DOMAIN d : d[i].k # ExtraColumn /\ (d[i].v = NULL \/ d[i].v.n < 0)})
            + Cardinality(Range(EXPECTED_FEATURES) \ Keys(d)) <= 1}

SimulateRequests ==
    [base_features : {<<>>} \cup SimulateBases, vary_feature : {""} \cup Range(Columns),
     steps : StepCounts, variation_range : VariationRanges]

\* the requests of the sequential runs: records with at most one defect
PlainCells == {Num(0), Num(MaxValue)}

DefectCells == {NULL, Num(-1)}

SmallDicts ==
    {d \in OrderedDicts :
        /\ \A i \in DOMAIN d :
              IF d[i].k = ExtraColumn THEN d[i].v = Num(1)
              ELSE d[i].v \in PlainCells \cup DefectCells
        /\ Cardinality({i \in DOMAIN d : d[i].v \in DefectCells})
             + Cardinality(Range(EXPECTED_FEATURES) \ Keys(d)) <= 1}

AnalyzeRequests ==
    [data : {<<d>> : d \in SmallDicts}, row_index : {<<>>}]
        \cup [data : {<<>>}, row_index : {<<>>} \cup {<<k>> : k \in -1..2}]

\* no record, or a full record whose first field alone may be defective
SweepBases ==
    {<<>>} \cup
    {d \in SmallDicts :
        /\ Len(d) = Len(Columns)
        /\ d[1].v # Num(0)
        /\ \A i \in 2..Len(EXPECTED_FEATURES) : d[i].v = Num(MaxValue)}

SweepRequests ==
    [base_features : SweepBases,
     vary_feature : {"", "gene_expr_level", ExtraColumn},
     steps : {<<0>>, <<1>>, <<MaxSteps>>},
     variation_range : {<<>>, <<Rat(MaxRangeHalves, 2)>>}]

Table(columns, rows) == [parses |-> TRUE, columns |-> columns, rows |-> rows]

\* uploaded files: text that is no table, a header without rows, one valid
\* row, a valid row followed by a negative one, a table short of a column and
\* longer than the preview
CsvFiles ==
    { [parses |-> FALSE, columns |-> <<>>, rows |-> <<>>],
      Table(Columns, <<>>),
      Table(Columns, << <<Num(1), Num(0), Num(MaxValue), Num(1)>> >>),
      Table(EXPECTED_FEATURES, << <<Num(1), Num(1), Num(0)>>, <<Num(0), Num(-1), Num(1)>> >>),
      Table(<<"gene_expr_level", "ph_level">>,
            [r \in 1..(PreviewRows + 1) |-> <<Num(r), Num(1)>>]) }

UploadRequests ==
    {<<>>} \cup {<<[filename |-> f, content |-> c]>> :
                    f \in {"", "notes.txt", "data.csv", "../data.csv"}, c \in CsvFiles}

\* data/ without the sample file, or with one of the files above as the sample
SampleDirs == {<<>>} \cup {SampleDataPath :> c : c \in CsvFiles}

\* templates/ without or with the page
TemplateDirs == {{}, {"index.html"}}

\* uploads/ as an earlier run of the process left it
LeftOverUploads == {<<>>} \cup {UploadPath("data.csv") :> c : c \in CsvFiles}

\* session['current_file'] of a cookie issued before the restart: the signing
\* key is the same in every run
LeftOverSessions == {"", UploadPath("data.csv")}

ExplainRequests == [target : {<<>>, <<"unknown_target">>} \cup {<<t>> : t \in Range(TARGETS)}]

(* ------------------------------- actions ------------------------------ *)

NoRequest == [op |-> "none"]

\* the process after start-up: models and metadata loaded; makedirs keeps
\* what uploads/ holds, and the client may hold a cookie of an earlier run
Init ==
    /\ metadata \in Registries
    /\ uploads \in LeftOverUploads
    /\ session \in LeftOverSessions
    /\ request = NoRequest
    /\ response = NoResponse

\* start-up on an empty uploads/ with a client that holds no cookie
InitClean == Init /\ uploads = <<>> /\ session = ""

\* a call of validate_and_prepare_data on the frame of one JSON record
CallValidate(record) ==
    /\ request' = [op |-> "validate", df |-> DataFrame(record)]
    /\ response' = validate_and_prepare_data(DataFrame(ParseDict(record)))
    /\ UNCHANGED <<metadata, uploads, session>>

ServeUpload(files) ==
    /\ request' = [op |-> "upload", files |-> files]
    /\ response' = upload_file(files)
    /\ uploads' = upload_disk(uploads, files)
    /\ session' = upload_session(uploads, session, files)
    /\ UNCHANGED metadata

ServeAnalyze(data) ==
    /\ request' = [op |-> "analyze", data |-> data]
    /\ response' = analyze(metadata, uploads, session, data)
    /\ UNCHANGED <<metadata, uploads, session>>

ServeSimulate(data) ==
    /\ request' = [op |-> "simulate", data |-> data]
    /\ response' = simulate(data)
    /\ UNCHANGED <<metadata, uploads, session>>

ServeExplain(data) ==
    /\ request' = [op |-> "explain", data |-> data]
    /\ response' = explain(metadata, data)
    /\ UNCHANGED <<metadata, uploads, session>>

ServeSampleData(data_dir) ==
    /\ request' = [op |-> "sample_data", data_dir |-> data_dir]
    /\ response' = get_sample_data(data_dir)
    /\ UNCHANGED <<metadata, uploads, session>>

ServeIndex(templates) ==
    /\ request' = [op |-> "index", templates |-> templates]
    /\ response' = index(templates)
    /\ UNCHANGED <<metadata, uploads, session>>

\* the web application: any request, any number of times
Next ==
    \/ \E templates \in TemplateDirs : ServeIndex(templates)
    \/ \E files \in UploadRequests : ServeUpload(files)
    \/ \E data \in AnalyzeRequests : ServeAnalyze(data)
    \/ \E data \in SweepRequests : ServeSimulate(data)
    \/ \E data \in ExplainRequests : ServeExplain(data)
    \/ \E data_dir \in SampleDirs : ServeSampleData(data_dir)

Spec == Init /\ [][Next]_vars

\* the validator on its own, over every record of the bounds; it reads
\* neither uploads/ nor the session
NextValidate == response = NoResponse /\ \E d \in Dicts : CallValidate(d)

SpecValidate == InitClean /\ [][NextValidate]_vars

\* the first simulation a process serves, over every request of the bounds;
\* it reads neither uploads/ nor the session
NextSimulate == response = NoResponse /\ \E data \in SimulateRequests : ServeSimulate(data)

SpecSimulate == InitClean /\ [][NextSimulate]_vars

(* ======================= claims on the validator ====================== *)

Validated == request.op = "validate"

\* the JSON cell of the request's record under a column it has
CellAt(df, name) == df.rows[1][ColumnIndex(df, name)]

SchemaNames == Range(EXPECTED_FEATURES)

AbsentNames(df) == {f \in SchemaNames : \A j \in DOMAIN df.columns : df.columns[j] # f}

HasNullSchemaCell(df) ==
    \E j \in DOMAIN df.columns : df.columns[j] \in SchemaNames /\ df.rows[1][j] = NULL

HasNegativeSchemaCell(df) ==
    \E j \in DOMAIN df.columns :
        df.columns[j] \in SchemaNames /\ df.rows[1][j] # NULL /\ df.rows[1][j].n < 0

\* C4 as stated: a record with a negative schema value is always rejected as
\* NegativeValues, even when other schema fields are absent or null.
C4_NegativeAlwaysNegativeValues ==
    (Validated /\ HasNegativeSchemaCell(request.df))
        => response.error.kind = "NegativeValues"

\* C4 amended: a record that holds every schema field, none of them null, and
\* at least one of them negative is rejected as NegativeValues and yields no vector.
C4_NegativeValuesWhenComplete ==
    (/\ Validated
     /\ AbsentNames(request.df) = {}
     /\ ~HasNullSchemaCell(request.df)
     /\ HasNegativeSchemaCell(request.df))
        => (response.error.kind = "NegativeValues" /\ response.X = NoneValue)

C4_Witness ==
    /\ Validated
    /\ AbsentNames(request.df) = {}
    /\ ~HasNullSchemaCell(request.df)
    /\ HasNegativeSchemaCell(request.df)
    /\ ExtraColumn \in Range(request.df.columns)
    /\ response.error = NegativeValuesError

\* C5: a record that lacks a schema field is rejected as MissingFeatures and the
\* names reported are exactly the absent schema fields, whatever the present
\* fields hold.
C5_MissingFeaturesExact ==
    (Validated /\ AbsentNames(request.df) # {})
        => /\ response.error.kind = "MissingFeatures"
           /\ response.error.names = AbsentNames(request.df)
           /\ response.X = NoneValue

C5_Witness ==
    /\ Validated
    /\ AbsentNames(request.df) = {"cell_density"}
    /\ HasNegativeSchemaCell(request.df)
    /\ HasNullSchemaCell(request.df)
    /\ ExtraColumn \in Range(request.df.columns)
    /\ response.error.kind = "MissingFeatures"
    /\ response.error.names = {"cell_density"}

\* C6: a record with every schema field present, non-null and non-negative is
\* accepted; the vector has the schema's columns in schema order, the record's
\* values unchanged (as the floats they parse to), and nothing else.
C6_ValidRecordProjected ==
    (/\ Validated
     /\ AbsentNames(request.df) = {}
     /\ ~HasNullSchemaCell(request.df)
     /\ ~HasNegativeSchemaCell(request.df))
        => /\ response.error = NoError
           /\ response.X # NoneValue
           /\ response.X.columns = EXPECTED_FEATURES
           /\ Len(response.X.rows) = 1
           /\ Len(response.X.rows[1]) = Len(EXPECTED_FEATURES)
           /\ \A j \in DOMAIN EXPECTED_FEATURES :
                 response.X.rows[1][j] = Parse(CellAt(request.df, EXPECTED_FEATURES[j]))

C6_Witness ==
    /\ Validated
    /\ request.df.columns = <<"ph_level", ExtraColumn, "cell_density", "gene_expr_level">>
    /\ request.df.rows[1] = <<Num(1), NULL, Num(0), Num(ExampleValue)>>
    /\ response.error = NoError
    /\ response.X.rows[1] = <<FNum(ExampleValue), FNum(0), FNum(1)>>

(* ======================= claims on the simulation ===================== *)

Simulated == request.op = "simulate"

ReqSteps == Get(request.data.steps, DefaultSteps)

\* the requested range as a decimal; 0.3 when the request names none
ReqRange == Get(request.data.variation_range, Rat(3, 10))

ReqBase == request.data.base_features

ReqVary == request.data.vary_feature

\* the base record is non-empty and passes the validator's three checks
ValidBase ==
    /\ ReqBase # <<>>
    /\ AbsentNames(DataFrame(ReqBase)) = {}
    /\ ~HasNullSchemaCell(DataFrame(ReqBase))
    /\ ~HasNegativeSchemaCell(DataFrame(ReqBase))

VaryPresent == ReqVary # "" /\ \E i \in DOMAIN ReqBase : ReqBase[i].k = ReqVary

BaseValue == CellAt(DataFrame(ReqBase), ReqVary)

\* the real number base_value * factor_i, as numerator over the positive denominator
\* BaseValue.d * ReqRange.d * (steps - 1), for steps >= 2
PerturbedNumerator(i) ==
    BaseValue.n * (ReqRange.d * (ReqSteps - 1) - ReqRange.n * (ReqSteps - 1)
                     + 2 * ReqRange.n * i)

PerturbedDenominator == BaseValue.d * ReqRange.d * (ReqSteps - 1)

\* some step of the sweep puts a negative value in a schema field
SomeStepRejected ==
    /\ ReqVary \in SchemaNames
    /\ ReqSteps >= 2
    /\ \E i \in 0..(ReqSteps - 1) : PerturbedNumerator(i) < 0

\* C1 as stated: with steps = 1 the simulation succeeds with a single step at
\* factor 1.0, the base value unchanged.
C1_SingleStepSucceeds ==
    (Simulated /\ ValidBase /\ VaryPresent /\ ReqSteps = 1)
        => /\ response.status = 200
           /\ Len(response.body.trajectory) = 1
           /\ response.body.trajectory[1].value = Parse(BaseValue)

\* C2: when the validator rejects the perturbed record of some step, the
\* simulation answers with an error and returns no trajectory.
C2_RejectedStepFailsSimulation ==
    (Simulated /\ ValidBase /\ VaryPresent /\ SomeStepRejected)
        => /\ response.status # 200
           /\ "error" \in DOMAIN response.body
           /\ "trajectory" \notin DOMAIN response.body

C2_Witness ==
    /\ Simulated /\ ValidBase /\ VaryPresent /\ SomeStepRejected
    /\ ReqSteps = 3
    /\ ReqRange = Rat(3, 2)
    /\ PerturbedNumerator(0) < 0 /\ PerturbedNumerator(1) > 0
    /\ response.status = 500

\* C3 as stated: a step count of zero or less is answered with an error, never
\* with a success response.
C3_NonPositiveStepsRejected ==
    (Simulated /\ ReqSteps <= 0) => response.status # 200

BAbsDiff(a, b) == IF BCmp(a, b) >= 0 THEN BSub(a, b) ELSE BSub(b, a)

\* |x - n / d| <= (tn / td) / 2^48, for a float x and integers n, d > 0, tn, td > 0
Within(x, n, d, tn, td) ==
    LET up == IF x.exp > 0 THEN x.exp ELSE 0
        down == IF x.exp < 0 THEN -x.exp ELSE 0
        A == BMulSmall(BShl(x.mant, up), d)
        B == BShl(BFromInt(Abs(n)), down)
        diff == IF x.sign * Sign(n) < 0 THEN BAdd(A, B) ELSE BAbsDiff(A, B)
    IN  /\ ~IsNull(x)
        /\ BCmp(BMulSmall(BShl(diff, 48), td), BShl(BFromInt(tn * d), down)) <= 0

\* a success response with one entry per step, entry i carrying step = i
TrajectoryInOrder ==
    /\ response.status = 200
    /\ Len(response.body.trajectory) = ReqSteps
    /\ \A i \in 0..(ReqSteps - 1) : response.body.trajectory[i + 1].step = i

\* every value is the float nearest the real number base_value * factor_i
TrajectoryExact ==
    \A i \in 0..(ReqSteps - 1) :
        response.body.trajectory[i + 1].value
            = Float(PerturbedNumerator(i), PerturbedDenominator)

\* every value is base_value * factor_i up to the rounding of float arithmetic:
\* within |base_value| * (1 + |variation_range|) / 2^48 of the real number
TrajectoryRounded ==
    \A i \in 0..(ReqSteps - 1) :
        Within(response.body.trajectory[i + 1].value,
               PerturbedNumerator(i), PerturbedDenominator,
               Abs(BaseValue.n) * (ReqRange.d + Abs(ReqRange.n)),
               BaseValue.d * ReqRange.d)

\* the first value is the float product of the base value and 1 - variation_range
FirstAtLowerEnd ==
    response.body.trajectory[1].value
        = FMul(Parse(BaseValue), FSub(FNum(1), Parse(ReqRange)))

\* C7 as stated: for steps >= 2, a valid base record and a varied field that
\* holds a number, the simulation returns exactly `steps` entries in order,
\* entry i at base_value * factor_i, whatever the variation range.
C7_TrajectoryForEveryRange ==
    (Simulated /\ ValidBase /\ VaryPresent /\ BaseValue # NULL /\ ReqSteps >= 2)
        => (TrajectoryInOrder /\ TrajectoryExact)

\* C7 amended: the same up to the rounding of float arithmetic, the first entry
\* exactly at the float factor 1 - variation_range, provided no step puts a
\* negative value in a schema field.
C7_TrajectoryWhenStepsValid ==
    (/\ Simulated /\ ValidBase /\ VaryPresent /\ ReqSteps >= 2
     /\ BaseValue # NULL
     /\ ~SomeStepRejected)
        => (TrajectoryInOrder /\ TrajectoryRounded /\ FirstAtLowerEnd)

C7_Witness ==
    /\ Simulated /\ ValidBase /\ VaryPresent
    /\ ReqSteps = 3
    /\ ReqRange = Rat(1, 2)
    /\ ReqVary = "cell_density"
    /\ BaseValue = Num(ExampleValue)
    /\ response.status = 200
    /\ Len(response.body.trajectory) = 3
    /\ response.body.trajectory[1].value = FNum(ExampleValue \div 2)
    /\ response.body.trajectory[2].value = FNum(ExampleValue)
    /\ response.body.trajectory[3].value = FNum(ExampleValue + ExampleValue \div 2)

(* ======================== claims on the engine ======================== *)

Answered == response # NoResponse

\* the operations of the engine, each of which runs inside a try
EngineOps == {"upload", "analyze", "simulate", "explain"}

\* C8: whatever was served before, an engine operation ends with a success
\* value or a structured error value; a failure raised inside it is caught at
\* its boundary and reported as an error carrying the cause.
C8_SuccessOrStructuredError ==
    (Answered /\ request.op \in EngineOps)
        => /\ DOMAIN response = {"status", "body"}
           /\ response.status \in {200, 400, 500}
           /\ (response.status = 200) = ("error" \notin DOMAIN response.body)
           /\ response.status # 200 => "msg" \in DOMAIN response.body.error
           /\ response.status = 500 => "cause" \in DOMAIN response.body.error

\* a scoring function fails on the row-less table of the session's file
C8_Witness ==
    /\ request.op = "analyze"
    /\ request.data.data = <<>>
    /\ session = "uploads/data.csv"
    /\ session \in DOMAIN uploads
    /\ uploads[session].parses /\ uploads[session].rows = <<>>
    /\ response.status = 500
    /\ response.body.error.cause = "ValueError"

Analyzed == request.op = "analyze" /\ Answered /\ response.status = 200

\* C9: the confidence of every successful prediction is the registry's static
\* r2_score of each target, whatever vector was scored.
C9_ConfidenceIsStaticR2 ==
    Analyzed
        => \A t \in Range(TARGETS) :
              response.body.confidence[t] = metadata.models[t].r2_score

C9_Witness ==
    /\ Analyzed
    /\ response.body.predictions.health_index = Float(6, 10)
    /\ response.body.predictions.mutation_risk = Float(4, 10)
    /\ response.body.confidence.health_index = Float(-1, 10)
    /\ response.body.confidence.mutation_risk = FNum(1)

\* the tier of the threshold table
Tier(importance) ==
    IF FSub(importance, Float(15, 100)).sign > 0 THEN "high"
    ELSE IF FSub(importance, Float(8, 100)).sign > 0 THEN "moderate"
    ELSE "low"

\* C10: each of the three entries of a target carries the registry's importance
\* and the tier of the threshold table for it: high above 0.15, moderate above
\* 0.08 up to 0.15, low otherwise.
C10_ImpactTierFromImportance ==
    Analyzed
        => \A t \in Range(TARGETS) :
              /\ Len(response.body.explanation[t]) = 3
              /\ \A k \in 1..3 :
                    LET entry == response.body.explanation[t][k]
                        ranked == metadata.models[t].top_features[k]
                    IN  /\ entry.importance = ranked.importance
                        /\ entry.impact = Tier(ranked.importance)

\* importances exactly 0.15 and 0.08 fall in the lower tiers, 0.77 is high
C10_Witness ==
    /\ Analyzed
    /\ response.body.explanation.health_index[1].impact = "high"
    /\ response.body.explanation.health_index[2].importance = Float(15, 100)
    /\ response.body.explanation.health_index[2].impact = "moderate"
    /\ response.body.explanation.health_index[3].importance = Float(8, 100)
    /\ response.body.explanation.health_index[3].impact = "low"
    /\ response.body.explanation.mutation_risk[2].importance = Float(151, 1000)
    /\ response.body.explanation.mutation_risk[2].impact = "high"

====
